---- MODULE Spec2Model ----
(***************************************************************************)
(* Model of speech_recognition/data/data_loader.py (waveform loader,       *)
(* transcript parser, sample provider, batch collators, metadata buffer)   *)
(* and of the target un-flattening loop of pytorch/eval_model.py.          *)
(*                                                                         *)
(* Python positions are 0-based, TLA+ sequences 1-based: position x of the *)
(* code is element x + 1 of the model.  Manifest indices keep the code's   *)
(* 0-based values.                                                         *)
(***************************************************************************)
EXTENDS Integers, Sequences, FiniteSets, TLC

VARIABLES
    \* SpectrogramDataset
    labels_map,        \* self.labels_map: character -> index
    access_history,    \* self.access_history: manifest indices fetched
    \* the loader's iteration over batches, one per worker
    worker,            \* w -> [pc, indices, batch]
    \* AudioDataLoader
    item_meta,         \* self.item_meta
    batch_meta,        \* self.batch_meta
    meta_buffer,       \* self.meta_buffer
    iter,              \* self.iter
    out,               \* what the last collation returned
    split_targets,     \* eval_model: the targets of the batch, unflattened
    \* pop_meta_buffer
    pop_pc,            \* "idle" or "polling"
    timeout,           \* number of 0.01 s sleeps done by the running call
    pop_result,        \* what the last call returned (or the error it raised)
    popped,            \* history: iteration counters of the records returned
    \* parse_transcript on one transcript file
    transcript_file,   \* content of the file
    transcript,        \* the parsed label sequence
    parse_pc,
    \* load_audio on one audio file
    audio_file,        \* the decoded mono waveform of the file
    audio_truncation,  \* the target frame count
    sound,             \* the returned waveform
    load_pc,
    \* inject_noise_sample on one signal and one noise clip
    data,              \* the signal, changed in place and returned
    data_in,           \* history: the signal as it was passed in
    noise_level,
    noise_src,         \* the noise clip
    noise_offset,      \* int(len(noise_src) * noise_offset_fraction) as drawn
    noise_dst,
    src_offset,
    src_left,
    dst_offset,
    dst_left,
    noise_pc

vars == <<labels_map, access_history, worker, item_meta, batch_meta, meta_buffer,
          iter, out, split_targets, pop_pc, timeout, pop_result, popped,
          transcript_file, transcript, parse_pc,
          audio_file, audio_truncation, sound, load_pc,
          data, data_in, noise_level, noise_src, noise_offset, noise_dst,
          src_offset, src_left, dst_offset, dst_left, noise_pc>>

datasetVars == <<labels_map, access_history>>
loaderVars == <<worker, item_meta, batch_meta, meta_buffer, iter, out, split_targets>>
popVars == <<pop_pc, timeout, pop_result, popped>>
parseVars == <<transcript_file, transcript, parse_pc>>
loadVars == <<audio_file, audio_truncation, sound, load_pc>>
noiseInputs == <<data_in, noise_level, noise_src>>
noiseLocals == <<noise_offset, noise_dst, src_offset, src_left, dst_offset, dst_left>>
noiseVars == <<noiseInputs, noiseLocals, data, noise_pc>>

----------------------------------------------------------------------------
(* Bounds of the model *)

\* longest transcript text
MaxLen == 4
\* longest source waveform
MaxSrc == 3
\* largest target frame count
MaxFrames == 7
\* largest batch the sampler yields
MaxBatch == 2
\* number of collation calls in a run
MaxIter == 2
\* frequency bins of every feature tensor (fixed by the audio configuration)
FreqBins == 2
\* longest noise clip
MaxNoise == 3
\* longest signal noise is injected into
MaxData == 4

----------------------------------------------------------------------------
(* Generic helpers *)

Min(a, b) == IF a < b THEN a ELSE b

Last(s) == s[Len(s)]

\* Python s[lo:hi] for 0 <= lo, with the slice clamped to the sequence
Slice(s, lo, hi) == SubSeq(s, Min(lo, Len(s)) + 1, Min(hi, Len(s)))

\* all sequences over S of length at most n
SeqsUpTo(S, n) == UNION {[1..k -> S] : k \in 0..n}

----------------------------------------------------------------------------
(* load_audio *)

\* math.ceil(a / float(b)) for a >= 0, b > 0
Ceil(a, b) == (a + b - 1) \div b

\* for _ in range(int(repeats)): sound = np.concatenate((sound, appendage))
RECURSIVE Tile(_, _, _)
Tile(snd, appendage, repeats) ==
    IF repeats <= 0 THEN snd
    ELSE Tile(snd \o appendage, appendage, repeats - 1)

\* floor instead of ceil in the number of repeats
load_audio_floor(src, trunc) ==
    IF trunc > 0
    THEN LET tiled == IF trunc > Len(src)
                      THEN Tile(src, src, (trunc - Len(src)) \div Len(src))
                      ELSE src
         IN  Slice(tiled, 0, trunc)
    ELSE src

\* load_audio(path, audio_truncation), from the mono waveform on
load_audio(src, trunc) ==
    IF trunc > 0
    THEN LET tiled == IF trunc > Len(src)
                      THEN Tile(src, src, Ceil(trunc - Len(src), Len(src)))
                      ELSE src
         IN  Slice(tiled, 0, trunc)
    ELSE src

\* waveform sample values
Amplitudes == {1, 2}

Waveforms == SeqsUpTo(Amplitudes, MaxSrc) \ {<<>>}

\* -1 is the default: no truncation
Truncations == {-1} \cup (0..MaxFrames)

LoadAudio ==
    /\ load_pc = "start"
    /\ sound' = load_audio(audio_file, audio_truncation)
    /\ load_pc' = "done"
    /\ UNCHANGED <<audio_file, audio_truncation>>
    /\ UNCHANGED <<datasetVars, loaderVars, popVars, parseVars, noiseVars>>

----------------------------------------------------------------------------
(* NoiseInjection.inject_noise_sample *)

\* the locals the wrap-copy loop works on
NoiseLoopState ==
    [noise_dst |-> noise_dst, src_offset |-> src_offset, src_left |-> src_left,
     dst_offset |-> dst_offset, dst_left |-> dst_left]

\* np.copyto(noise_dst[dst_offset:dst_offset + copy_size],
\*           noise_src[src_offset:src_offset + copy_size])
copyto(dst, d_off, src, s_off, copy_size) ==
    [k \in 1..Len(dst) |->
        IF d_off < k /\ k <= d_off + copy_size THEN src[s_off + (k - d_off)] ELSE dst[k]]

\* the source offset is kept when the clip wraps
wrap_copy_noreset(l, src) ==
    LET copy_size == Min(l.dst_left, l.src_left)
        copied == copyto(l.noise_dst, l.dst_offset, src, l.src_offset, copy_size)
    IN  IF l.src_left > l.dst_left
        THEN [l EXCEPT !.noise_dst = copied, !.dst_left = 0]
        ELSE [noise_dst |-> copied,
              dst_left |-> l.dst_left - copy_size,
              dst_offset |-> l.dst_offset + copy_size,
              src_left |-> Len(src) - l.src_offset,
              src_offset |-> l.src_offset]

\* one pass of the while loop
wrap_copy(l, src) ==
    LET copy_size == Min(l.dst_left, l.src_left)
        copied == copyto(l.noise_dst, l.dst_offset, src, l.src_offset, copy_size)
    IN  IF l.src_left > l.dst_left
        THEN [l EXCEPT !.noise_dst = copied, !.dst_left = 0]
        ELSE [noise_dst |-> copied,
              dst_left |-> l.dst_left - copy_size,
              dst_offset |-> l.dst_offset + copy_size,
              src_left |-> Len(src),
              src_offset |-> 0]

\* signal sample values
SignalValues == {10, 20}

Signals == SeqsUpTo(SignalValues, MaxData)

NoiseClips == SeqsUpTo(Amplitudes, MaxNoise) \ {<<>>}

\* noise levels; the code draws a real number from noise_levels
NoiseLevels == {0, 1, 2}

\* int(len(noise_src) * noise_offset_fraction) for a fraction in [0, 1)
Offsets(src) == 0..(Len(src) - 1)

\* the clip is loaded, the offset drawn and the locals set up
InjectStart ==
    /\ noise_pc = "start"
    /\ noise_src' = load_audio(noise_src, -1)
    /\ \E o \in Offsets(noise_src) :
          /\ noise_offset' = o
          /\ src_offset' = o
          /\ src_left' = Len(noise_src) - o
    /\ noise_dst' = [k \in 1..Len(data) |-> 0]
    /\ dst_offset' = 0
    /\ dst_left' = Len(data)
    /\ noise_pc' = "loop"
    /\ UNCHANGED <<data, data_in, noise_level>>
    /\ UNCHANGED <<datasetVars, loaderVars, popVars, parseVars, loadVars>>

\* while dst_left > 0: one pass
InjectCopy ==
    /\ noise_pc = "loop"
    /\ dst_left > 0
    /\ LET l == wrap_copy(NoiseLoopState, noise_src)
       IN  /\ noise_dst' = l.noise_dst
           /\ src_offset' = l.src_offset
           /\ src_left' = l.src_left
           /\ dst_offset' = l.dst_offset
           /\ dst_left' = l.dst_left
    /\ UNCHANGED <<data, data_in, noise_level, noise_src, noise_offset, noise_pc>>
    /\ UNCHANGED <<datasetVars, loaderVars, popVars, parseVars, loadVars>>

\* data += noise_level * noise_dst; return data
InjectAdd ==
    /\ noise_pc = "loop"
    /\ ~(dst_left > 0)
    /\ data' = [k \in 1..Len(data) |-> data[k] + noise_level * noise_dst[k]]
    /\ noise_pc' = "done"
    /\ UNCHANGED <<noiseInputs, noiseLocals>>
    /\ UNCHANGED <<datasetVars, loaderVars, popVars, parseVars, loadVars>>

----------------------------------------------------------------------------
(* SpectrogramDataset: labels_map and parse_transcript *)

\* the value dict.get returns for a missing key
None == -1

\* dict([(labels[i], i) for i in range(len(labels))]): a later pair wins
make_labels_map(labels) ==
    [c \in {labels[i] : i \in 1..Len(labels)} |->
        CHOOSE i \in 0..(Len(labels) - 1) :
            /\ labels[i + 1] = c
            /\ \A j \in 0..(Len(labels) - 1) : labels[j + 1] = c => j <= i]

\* labels_map.get(x)
dict_get(m, x) == IF x \in DOMAIN m THEN m[x] ELSE None

\* bool(v) of an index or None: None and 0 are false
Truthy(v) == v # None /\ v # 0

\* transcript.replace('\n', '')
RECURSIVE strip_newlines(_)
strip_newlines(text) ==
    IF text = <<>> THEN <<>>
    ELSE IF Head(text) = "\n" THEN strip_newlines(Tail(text))
    ELSE <<Head(text)>> \o strip_newlines(Tail(text))

\* filter(None, xs)
RECURSIVE filter_none(_)
filter_none(xs) ==
    IF xs = <<>> THEN <<>>
    ELSE IF Truthy(Head(xs)) THEN <<Head(xs)>> \o filter_none(Tail(xs))
    ELSE filter_none(Tail(xs))

\* parse_transcript, from the text read from the file on
parse_transcript(m, text) ==
    LET stripped == strip_newlines(text)
        mapped == [i \in 1..Len(stripped) |-> dict_get(m, stripped[i])]
    IN  filter_none(mapped)

\* characters of a transcript file
Chars == {"a", "b", "c", "\n"}

Texts == SeqsUpTo(Chars, MaxLen)

\* the label strings a dataset is built with
Alphabets == {<<"a", "b">>, <<"b", "a">>, <<"a">>, <<"b", "c">>, <<"c", "a", "b">>, <<>>}

ParseTranscript ==
    /\ parse_pc = "start"
    /\ transcript' = parse_transcript(labels_map, transcript_file)
    /\ parse_pc' = "done"
    /\ UNCHANGED <<transcript_file, labels_map, access_history>>
    /\ UNCHANGED <<loaderVars, popVars, loadVars, noiseVars>>

----------------------------------------------------------------------------
(* The files the manifest names *)

\* self.ids: one (audio path, transcript path) pair per manifest line
ids == << <<"a.wav", "a.txt">>, <<"b.wav", "b.txt">> >>

\* the label string the dataset is built with
Labels == <<"_", "a", "b">>

\* content of the transcript files
TranscriptFiles ==
    [p \in {"a.txt", "b.txt"} |->
        IF p = "a.txt" THEN <<"a", "b", "\n", "a">> ELSE <<"b">>]

\* the audio files: time frames of the spectrogram, duration probed by sox
\* (seconds), size on disk (bytes)
AudioFiles ==
    [p \in {"a.wav", "b.wav"} |->
        IF p = "a.wav" THEN [frames |-> 2, duration |-> 3, bytes |-> 32000, base |-> 100]
                       ELSE [frames |-> 3, duration |-> 5, bytes |-> 48000, base |-> 200]]

\* valid manifest indices
Indices == 0..(Len(ids) - 1)

\* parse_audio without augmentation or noise: the [frequency x time] log
\* spectrogram of the file (the STFT itself is librosa's)
parse_audio(audio_path) ==
    LET a == AudioFiles[audio_path]
    IN  [f \in 1..FreqBins |-> [t \in 1..a.frames |-> a.base + 10 * f + t]]

\* tensor.size(0), tensor.size(1)
size0(tensor) == Len(tensor)
size1(tensor) == Len(tensor[1])

\* __getitem__ without the append to access_history: (spect, transcript)
getitem(m, index) ==
    LET sample == ids[index + 1]
    IN  <<parse_audio(sample[1]), parse_transcript(m, TranscriptFiles[sample[2]])>>

\* get_meta(index): (audio_path, transcript_path, audio_dur, audio_size);
\* the size is in kilobytes
get_meta(index) ==
    LET sample == ids[index + 1]
    IN  <<sample[1], sample[2], AudioFiles[sample[1]].duration,
          AudioFiles[sample[1]].bytes \div 1000>>

----------------------------------------------------------------------------
(* _collate_fn and the tensor part of my_collate_fn *)

\* max(batch, key=func)[0]: the first sample of the largest time length
longest(batch) ==
    LET x == CHOOSE x \in 1..Len(batch) :
                 /\ \A y \in 1..Len(batch) : size1(batch[y][1]) <= size1(batch[x][1])
                 /\ \A y \in 1..(x - 1) : size1(batch[y][1]) < size1(batch[x][1])
    IN  batch[x][1]

\* torch.zeros(minibatch_size, 1, freq_size, max_seqlength)
zeros(n, freq_size, max_seqlength) ==
    [x \in 1..n |-> << [f \in 1..freq_size |-> [t \in 1..max_seqlength |-> 0]] >>]

\* the copy starts one column late
narrow_copy_shifted(channel, tensor, seq_length) ==
    [f \in 1..Len(channel) |->
        [t \in 1..Len(channel[f]) |->
            IF 1 < t /\ t <= seq_length + 1 /\ t - 1 <= Len(tensor[f])
            THEN tensor[f][t - 1] ELSE channel[f][t]]]

\* inputs[x][0].narrow(1, 0, seq_length).copy_(tensor)
narrow_copy(channel, tensor, seq_length) ==
    [f \in 1..Len(channel) |->
        [t \in 1..Len(channel[f]) |->
            IF t <= seq_length THEN tensor[f][t] ELSE channel[f][t]]]

\* the targets of a sample replace the list instead of extending it
collate_body_overwrite(acc, sample, x, max_seqlength) ==
    LET tensor == sample[1]
        target == sample[2]
        seq_length == size1(tensor)
    IN  [inputs |-> [acc.inputs EXCEPT ![x] = <<narrow_copy(@[1], tensor, seq_length)>>],
         input_percentages |-> Append(acc.input_percentages, <<seq_length, max_seqlength>>),
         target_sizes |-> Append(acc.target_sizes, Len(target)),
         targets |-> target]

\* one pass of the loop over the batch; a fraction a/b is the pair <<a, b>>
collate_body(acc, sample, x, max_seqlength) ==
    LET tensor == sample[1]
        target == sample[2]
        seq_length == size1(tensor)
    IN  [inputs |-> [acc.inputs EXCEPT ![x] = <<narrow_copy(@[1], tensor, seq_length)>>],
         input_percentages |-> Append(acc.input_percentages, <<seq_length, max_seqlength>>),
         target_sizes |-> Append(acc.target_sizes, Len(target)),
         targets |-> acc.targets \o target]

\* for x in range(minibatch_size)
RECURSIVE collate_loop(_, _, _, _)
collate_loop(acc, batch, x, max_seqlength) ==
    IF x > Len(batch) THEN acc
    ELSE collate_loop(collate_body(acc, batch[x], x, max_seqlength),
                      batch, x + 1, max_seqlength)

\* _collate_fn(batch): (inputs, targets, input_percentages, target_sizes)
collate_fn(batch) ==
    LET longest_sample == longest(batch)
        freq_size == size0(longest_sample)
        minibatch_size == Len(batch)
        max_seqlength == size1(longest_sample)
        start == [inputs |-> zeros(minibatch_size, freq_size, max_seqlength),
                  input_percentages |-> <<>>,
                  target_sizes |-> <<>>,
                  targets |-> <<>>]
    IN  collate_loop(start, batch, 1, max_seqlength)

----------------------------------------------------------------------------
(* eval_model: unflatten targets *)

\* for size in target_sizes: split_targets.append(targets[offset:offset + size])
RECURSIVE split_loop(_, _, _, _)
split_loop(split, targets, sizes, offset) ==
    IF sizes = <<>> THEN split
    ELSE split_loop(Append(split, Slice(targets, offset, offset + Head(sizes))),
                    targets, Tail(sizes), offset + Head(sizes))

----------------------------------------------------------------------------
(* AudioDataLoader.my_collate_fn: the metadata part *)

\* only duration and size are summed
accumulate_23(bm, entry) ==
    [i \in 1..Len(bm) |-> IF (i - 1) \in {2, 3} THEN bm[i] + entry[i] ELSE bm[i]]

\* if i in [2,3,4]: self.batch_meta[i] += meta   (0-based positions 2, 3, 4
\* are elements 3, 4, 5: duration, size, time frames)
accumulate(bm, entry) ==
    [i \in 1..Len(bm) |-> IF (i - 1) \in {2, 3, 4} THEN bm[i] + entry[i] ELSE bm[i]]

\* the provenance is keyed by the first entry of the history at every position
meta_body_first(st, hist, sample, x) ==
    LET seq_length == size1(sample[1])
        entry == Append(<<ids[hist[1] + 1][1], ids[hist[1] + 1][2],
                          AudioFiles[ids[hist[1] + 1][1]].duration,
                          AudioFiles[ids[hist[1] + 1][1]].bytes \div 1000>>, seq_length)
        im == Append(st.item_meta, entry)
    IN  IF Len(st.batch_meta) = 0
        THEN [ok |-> TRUE, item_meta |-> im, batch_meta |-> entry]
        ELSE LET bm == [i \in 1..Len(entry) |->
                           IF (i - 1) \in {2, 3, 4} THEN st.batch_meta[i] + entry[i]
                           ELSE st.batch_meta[i]]
             IN  [ok |-> TRUE, item_meta |-> [im EXCEPT ![1] = bm], batch_meta |-> bm]

\* the provenance is keyed by the newest entry of the history at every position
meta_body_last(st, hist, sample, x) ==
    LET seq_length == size1(sample[1])
        newest == hist[Len(hist)]
        entry == Append(<<ids[newest + 1][1], ids[newest + 1][2],
                          AudioFiles[ids[newest + 1][1]].duration,
                          AudioFiles[ids[newest + 1][1]].bytes \div 1000>>, seq_length)
        im == Append(st.item_meta, entry)
    IN  IF Len(st.batch_meta) = 0
        THEN [ok |-> TRUE, item_meta |-> im, batch_meta |-> entry]
        ELSE LET bm == [i \in 1..Len(entry) |->
                           IF (i - 1) \in {2, 3, 4} THEN st.batch_meta[i] + entry[i]
                           ELSE st.batch_meta[i]]
             IN  [ok |-> TRUE, item_meta |-> [im EXCEPT ![1] = bm], batch_meta |-> bm]

\* One pass of the loop for position x (1-based) of the batch.  The entry is
\* get_meta of the Access History entry at that position, followed by the time
\* length of the batch's own tensor.  self.batch_meta = self.item_meta[-1]
\* binds batch_meta to the list object that is item_meta[0], so every later
\* += on batch_meta is seen through item_meta[0] as well.
meta_body(st, hist, sample, x) ==
    LET seq_length == size1(sample[1])
        entry == Append(get_meta(hist[x]), seq_length)
        im == Append(st.item_meta, entry)
    IN  IF Len(st.batch_meta) = 0
        THEN [ok |-> TRUE, item_meta |-> im, batch_meta |-> entry]
        ELSE LET bm == accumulate(st.batch_meta, entry)
             IN  [ok |-> TRUE, item_meta |-> [im EXCEPT ![1] = bm], batch_meta |-> bm]

\* for x in range(minibatch_size); access_history[x] raises IndexError when the
\* history is shorter than the batch, and the loop is left with what it staged
RECURSIVE meta_loop(_, _, _, _)
meta_loop(st, hist, batch, x) ==
    IF x > Len(batch) THEN st
    ELSE IF x > Len(hist) THEN [st EXCEPT !.ok = FALSE]
    ELSE meta_loop(meta_body(st, hist, batch[x], x), hist, batch, x + 1)

\* {'iter': self.iter, 'item': self.item_meta, 'batch': self.batch_meta}
record(it, im, bm) == [iter |-> it, item |-> im, batch |-> bm]

\* nothing returned yet
NoData == [inputs |-> <<>>, input_percentages |-> <<>>, target_sizes |-> <<>>,
           targets |-> <<>>]

\* the loader has not started a batch
Idle == [pc |-> "idle", indices |-> <<>>, batch |-> <<>>]

\* SpectrogramDataset.__getitem__(index), called by the loader while it
\* assembles the batch of worker w: batch = [dataset[i] for i in indices]
GetItem(w, index) ==
    /\ iter < MaxIter
    /\ worker[w].pc = "fetch" => Len(worker[w].batch) < MaxBatch
    /\ access_history' = Append(access_history, index)
    /\ LET cur == IF worker[w].pc = "fetch" THEN worker[w] ELSE Idle
       IN  worker' = [worker EXCEPT ![w] =
                        [pc |-> "fetch",
                         indices |-> Append(cur.indices, index),
                         batch |-> Append(cur.batch, getitem(labels_map, index))]]
    /\ UNCHANGED <<labels_map, item_meta, batch_meta, meta_buffer, iter, out, split_targets>>
    /\ UNCHANGED <<popVars, parseVars, loadVars, noiseVars>>

\* AudioDataLoader.my_collate_fn(batch) on the batch of worker w
my_collate_fn(w) ==
    /\ iter < MaxIter
    /\ worker[w].pc = "fetch"
    /\ LET batch == worker[w].batch
           st == meta_loop([ok |-> TRUE, item_meta |-> <<>>, batch_meta |-> <<>>],
                           access_history, batch, 1)
       IN  /\ iter' = iter + 1
           /\ item_meta' = st.item_meta
           /\ batch_meta' = st.batch_meta
           /\ IF st.ok
              THEN /\ meta_buffer' = Append(meta_buffer,
                                            record(iter + 1, st.item_meta, st.batch_meta))
                   /\ access_history' = <<>>
                   /\ out' = collate_fn(batch)
                   /\ split_targets' = <<>>
                   /\ worker' = [worker EXCEPT ![w].pc = "done"]
              ELSE /\ worker' = [worker EXCEPT ![w].pc = "raised"]
                   /\ UNCHANGED <<meta_buffer, access_history, out, split_targets>>
    /\ UNCHANGED <<labels_map, popVars, parseVars, loadVars, noiseVars>>

\* eval_model: unflatten targets of the batch the loader just delivered
UnflattenTargets ==
    /\ \E w \in DOMAIN worker : worker[w].pc = "done"
    /\ split_targets = <<>>
    /\ split_targets' = split_loop(<<>>, out.targets, out.target_sizes, 0)
    /\ UNCHANGED <<worker, item_meta, batch_meta, meta_buffer, iter, out>>
    /\ UNCHANGED <<datasetVars, popVars, parseVars, loadVars, noiseVars>>

----------------------------------------------------------------------------
(* AudioDataLoader.pop_meta_buffer *)

\* The loop guard is timeout < 5 with timeout += 0.01 in IEEE doubles: the sum
\* first reaches 5 after 501 additions, so the loop sleeps at most 501 times.
PollLimit == 501

\* nothing returned yet
NoResult == [raised |-> FALSE, value |-> <<>>]

\* pop() instead of pop(0): the newest record is returned
pop0_last(buffer) ==
    IF Len(buffer) = 0
    THEN [buffer |-> buffer, result |-> [raised |-> TRUE, value |-> <<>>]]
    ELSE [buffer |-> SubSeq(buffer, 1, Len(buffer) - 1),
          result |-> [raised |-> FALSE, value |-> <<buffer[Len(buffer)]>>]]

\* the oldest record is returned and left in the buffer
pop0_keep(buffer) ==
    IF Len(buffer) = 0
    THEN [buffer |-> buffer, result |-> [raised |-> TRUE, value |-> <<>>]]
    ELSE [buffer |-> buffer, result |-> [raised |-> FALSE, value |-> <<Head(buffer)>>]]

\* self.meta_buffer.pop(0): IndexError on an empty list
pop0(buffer) ==
    IF Len(buffer) = 0
    THEN [buffer |-> buffer, result |-> [raised |-> TRUE, value |-> <<>>]]
    ELSE [buffer |-> Tail(buffer), result |-> [raised |-> FALSE, value |-> <<Head(buffer)>>]]

\* timeout = 0 on entry
PopCall ==
    /\ pop_pc = "idle"
    /\ pop_pc' = "polling"
    /\ timeout' = 0
    /\ UNCHANGED <<pop_result, popped>>
    /\ UNCHANGED <<datasetVars, loaderVars, parseVars, loadVars, noiseVars>>

\* the loop guard without the timeout
PopPoll_nolimit ==
    /\ pop_pc = "polling"
    /\ Len(meta_buffer) = 0
    /\ timeout' = timeout + 1
    /\ UNCHANGED <<pop_pc, pop_result, popped>>
    /\ UNCHANGED <<datasetVars, loaderVars, parseVars, loadVars, noiseVars>>

\* while len(self.meta_buffer) == 0 and timeout < 5: sleep, timeout += 0.01
PopPoll ==
    /\ pop_pc = "polling"
    /\ Len(meta_buffer) = 0 /\ timeout < PollLimit
    /\ timeout' = timeout + 1
    /\ UNCHANGED <<pop_pc, pop_result, popped>>
    /\ UNCHANGED <<datasetVars, loaderVars, parseVars, loadVars, noiseVars>>

\* the loop is left: return self.meta_buffer.pop(0)
PopExit ==
    /\ pop_pc = "polling"
    /\ ~(Len(meta_buffer) = 0 /\ timeout < PollLimit)
    /\ LET r == pop0(meta_buffer)
       IN  /\ meta_buffer' = r.buffer
           /\ pop_result' = r.result
           /\ popped' = IF r.result.raised THEN popped
                        ELSE Append(popped, r.result.value[1].iter)
    /\ pop_pc' = "idle"
    /\ timeout' = 0
    /\ UNCHANGED <<worker, item_meta, batch_meta, iter, out, split_targets>>
    /\ UNCHANGED <<datasetVars, parseVars, loadVars, noiseVars>>

\* The whole call in a program with one thread: nothing else runs while it
\* polls, so on an empty buffer it sleeps PollLimit times and then pops.
pop_meta_buffer ==
    /\ pop_pc = "idle"
    /\ LET r == pop0(meta_buffer)
       IN  /\ meta_buffer' = r.buffer
           /\ pop_result' = r.result
           /\ popped' = IF r.result.raised THEN popped
                        ELSE Append(popped, r.result.value[1].iter)
    /\ UNCHANGED <<pop_pc, timeout>>
    /\ UNCHANGED <<worker, item_meta, batch_meta, iter, out, split_targets>>
    /\ UNCHANGED <<datasetVars, parseVars, loadVars, noiseVars>>

----------------------------------------------------------------------------
(* Specifications *)

\* the parts of the state a specification does not use
ParseIdle == transcript_file = <<>> /\ transcript = <<>> /\ parse_pc = "off"
LoadIdle == audio_file = <<>> /\ audio_truncation = -1 /\ sound = <<>> /\ load_pc = "off"
PopIdle == pop_pc = "idle" /\ timeout = 0 /\ pop_result = NoResult /\ popped = <<>>
NoiseIdle ==
    /\ data = <<>> /\ data_in = <<>> /\ noise_level = 0 /\ noise_src = <<>>
    /\ noise_offset = 0 /\ noise_dst = <<>> /\ src_offset = 0 /\ src_left = 0
    /\ dst_offset = 0 /\ dst_left = 0 /\ noise_pc = "off"

\* state after SpectrogramDataset.__init__ and AudioDataLoader.__init__
LoaderInit(workers) ==
    /\ labels_map = make_labels_map(Labels)
    /\ access_history = <<>>
    /\ worker = [w \in workers |-> Idle]
    /\ item_meta = <<>>
    /\ batch_meta = <<>>
    /\ meta_buffer = <<>>
    /\ iter = 0
    /\ out = NoData
    /\ split_targets = <<>>

LoaderIdle ==
    /\ access_history = <<>>
    /\ worker = [w \in {1} |-> Idle]
    /\ item_meta = <<>>
    /\ batch_meta = <<>>
    /\ meta_buffer = <<>>
    /\ iter = 0
    /\ out = NoData
    /\ split_targets = <<>>

\* One thread: the loader draws the samples of a batch, collates them and hands
\* the batch to eval_model; the caller pops metadata between these steps.
Init == LoaderInit({1}) /\ PopIdle /\ ParseIdle /\ LoadIdle /\ NoiseIdle

Next ==
    \/ \E index \in Indices : GetItem(1, index)
    \/ my_collate_fn(1)
    \/ UnflattenTargets
    \/ pop_meta_buffer

Spec == Init /\ [][Next]_vars

\* Two batches, one per worker, assembled concurrently over one shared dataset:
\* each worker draws the samples of its batch and collates it once
InitShared == LoaderInit({1, 2}) /\ PopIdle /\ ParseIdle /\ LoadIdle /\ NoiseIdle

NextShared ==
    \E w \in {1, 2} :
        \/ worker[w].pc \in {"idle", "fetch"} /\ \E index \in Indices : GetItem(w, index)
        \/ my_collate_fn(w)

SpecShared == InitShared /\ [][NextShared]_vars

\* A loader with the default sampler (sequential, batch_size 1) in one thread
\* and a consumer polling pop_meta_buffer in another
NextPop ==
    \/ worker[1].pc # "fetch" /\ GetItem(1, iter % Len(ids))
    \/ my_collate_fn(1)
    \/ PopCall
    \/ PopPoll
    \/ PopExit

SpecPop == Init /\ [][NextPop]_vars

\* the scheduler keeps running the polling thread
SpecPopFair == SpecPop /\ WF_vars(PopPoll \/ PopExit)

\* parse_transcript on every text and label string
InitParse ==
    /\ \E labels \in Alphabets : labels_map = make_labels_map(labels)
    /\ transcript_file \in Texts
    /\ transcript = <<>>
    /\ parse_pc = "start"
    /\ LoaderIdle /\ PopIdle /\ LoadIdle /\ NoiseIdle

SpecParse == InitParse /\ [][ParseTranscript]_vars

\* load_audio on every waveform and target frame count
InitLoad ==
    /\ audio_file \in Waveforms
    /\ audio_truncation \in Truncations
    /\ sound = <<>>
    /\ load_pc = "start"
    /\ labels_map = make_labels_map(Labels)
    /\ LoaderIdle /\ PopIdle /\ ParseIdle /\ NoiseIdle

SpecLoad == InitLoad /\ [][LoadAudio]_vars

\* inject_noise_sample on every signal, noise clip, noise level and offset
InitNoise ==
    /\ data \in Signals
    /\ data_in = data
    /\ noise_level \in NoiseLevels
    /\ noise_src \in NoiseClips
    /\ noise_offset = 0 /\ noise_dst = <<>> /\ src_offset = 0 /\ src_left = 0
    /\ dst_offset = 0 /\ dst_left = 0
    /\ noise_pc = "start"
    /\ labels_map = make_labels_map(Labels)
    /\ LoaderIdle /\ PopIdle /\ ParseIdle /\ LoadIdle

NextNoise == InjectStart \/ InjectCopy \/ InjectAdd

SpecNoise == InitNoise /\ [][NextNoise]_vars

\* the call runs on: it is straight-line code in one thread
SpecNoiseFair == SpecNoise /\ WF_vars(NextNoise)

----------------------------------------------------------------------------
(* Properties: the collator's tensors (Spec) *)

\* the batch whose collation produced `out`
Delivered == worker[1].pc = "done"

RECURSIVE MaxTime(_)
MaxTime(batch) ==
    IF Len(batch) = 1 THEN size1(batch[1][1])
    ELSE LET m == MaxTime(Tail(batch))
         IN  IF size1(batch[1][1]) >= m THEN size1(batch[1][1]) ELSE m

RECURSIVE ConcatLabels(_)
ConcatLabels(batch) ==
    IF batch = <<>> THEN <<>> ELSE batch[1][2] \o ConcatLabels(Tail(batch))

RECURSIVE SumSeq(_)
SumSeq(s) == IF s = <<>> THEN 0 ELSE Head(s) + SumSeq(Tail(s))

\* C1: for a batch of N samples with F frequency bins each, the input tensor
\* has shape [N, 1, F, max_time], max_time the largest time length; row i holds
\* sample i's tensor in columns [0, len_i) and zero in [len_i, max_time).
C1_PaddedInputs ==
    Delivered =>
        LET batch == worker[1].batch
            N == Len(batch)
            max_time == MaxTime(batch)
        IN  /\ Len(out.inputs) = N
            /\ \A x \in 1..N :
                /\ Len(out.inputs[x]) = 1
                /\ Len(out.inputs[x][1]) = FreqBins
                /\ \A f \in 1..FreqBins :
                    /\ Len(out.inputs[x][1][f]) = max_time
                    /\ \A t \in 1..max_time :
                        out.inputs[x][1][f][t] =
                            IF t <= size1(batch[x][1]) THEN batch[x][1][f][t] ELSE 0

\* a batch of two samples of different time lengths, the shorter one first,
\* has been collated and its row is padded
C1_Witness ==
    /\ Delivered
    /\ Len(worker[1].batch) = 2
    /\ size1(worker[1].batch[1][1]) < size1(worker[1].batch[2][1])
    /\ out.inputs[1][1][1][size1(worker[1].batch[2][1])] = 0
    /\ out.inputs[1][1][1][1] # 0

\* C2: the flattened labels are the samples' label sequences concatenated in
\* batch order, target_sizes[i] is the length of sample i's sequence, the sizes
\* sum to the length of the flattened array, and eval_model's split at the
\* running sums recovers every sample's sequence.
C2_FlattenedTargets ==
    Delivered =>
        LET batch == worker[1].batch
        IN  /\ out.targets = ConcatLabels(batch)
            /\ out.target_sizes = [x \in 1..Len(batch) |-> Len(batch[x][2])]
            /\ SumSeq(out.target_sizes) = Len(out.targets)
            /\ split_targets # <<>> =>
                  split_targets = [x \in 1..Len(batch) |-> batch[x][2]]

\* the targets of a batch of two samples with different label sequences have
\* been split
C2_Witness ==
    /\ Delivered
    /\ Len(worker[1].batch) = 2
    /\ worker[1].batch[1][2] # worker[1].batch[2][2]
    /\ Len(split_targets) = 2

----------------------------------------------------------------------------
(* Properties: parse_transcript (SpecParse) *)

\* the indices of the characters that have a mapping, in order
RECURSIVE MappedIndices(_, _)
MappedIndices(m, text) ==
    IF text = <<>> THEN <<>>
    ELSE IF Head(text) # "\n" /\ Head(text) \in DOMAIN m
         THEN <<m[Head(text)]>> \o MappedIndices(m, Tail(text))
         ELSE MappedIndices(m, Tail(text))

\* C3: parse_transcript returns the vocabulary indices of exactly the
\* characters of the text (newlines removed) that have a mapping, in order.
C3_ParseKeepsMapped ==
    parse_pc = "done" => transcript = MappedIndices(labels_map, transcript_file)

----------------------------------------------------------------------------
(* Properties: the metadata pipeline in one thread (Spec) *)

\* a call of my_collate_fn returns in this step
Collated == worker[1].pc = "fetch" /\ worker'[1].pc = "done"

\* a call of pop_meta_buffer returns a record in this step
Popped == popped' # popped

\* the iteration counter of the record produced before the next one
PreviousIter ==
    IF meta_buffer # <<>> THEN Last(meta_buffer).iter ELSE Last(popped)

Increasing(s) == \A i, j \in 1..Len(s) : i < j => s[i] < s[j]

\* C4: every successful collation appends exactly one record at the end of the
\* buffer, numbered one more than the previous record; pops return the oldest
\* record, so the records come out in the order produced, each at most once.
C4_Fifo ==
    /\ [][Collated =>
            /\ Len(meta_buffer') = Len(meta_buffer) + 1
            /\ SubSeq(meta_buffer', 1, Len(meta_buffer)) = meta_buffer
            /\ (meta_buffer # <<>> \/ popped # <<>>) =>
                   Last(meta_buffer').iter = PreviousIter + 1]_vars
    /\ [][Popped =>
            /\ pop_result'.value = <<Head(meta_buffer)>>
            /\ meta_buffer' = Tail(meta_buffer)
            /\ popped' = Append(popped, Head(meta_buffer).iter)]_vars
    /\ [](/\ Increasing(popped)
          /\ Increasing([k \in 1..Len(meta_buffer) |-> meta_buffer[k].iter])
          /\ \A i \in 1..Len(popped), k \in 1..Len(meta_buffer) :
                 popped[i] < meta_buffer[k].iter)

\* two records were produced and both were popped, the second one last
C4_Witness ==
    /\ popped = <<1, 2>>
    /\ meta_buffer = <<>>
    /\ pop_result.value # <<>>
    /\ pop_result.value[1].iter = 2

\* the record pushed by the collation that delivered the current batch
LastRecord == Last(meta_buffer)
RecordHere == Delivered /\ meta_buffer # <<>> /\ LastRecord.iter = iter

\* C5: with one worker drawing a batch through get() and collating it before
\* any further get(), the Access History is empty after every collation, and
\* the item-level entry at position x of the record carries the audio and
\* transcript path of the manifest index of the batch's x-th sample.
C5_HistoryCorrelates ==
    /\ worker[1].pc # "fetch" => access_history = <<>>
    /\ worker[1].pc = "fetch" => access_history = worker[1].indices
    /\ RecordHere =>
          /\ Len(LastRecord.item) = Len(worker[1].indices)
          /\ \A x \in 1..Len(worker[1].indices) :
                /\ LastRecord.item[x][1] = ids[worker[1].indices[x] + 1][1]
                /\ LastRecord.item[x][2] = ids[worker[1].indices[x] + 1][2]

\* a batch drawn from manifest indices 1 then 0 has been collated
C5_Witness ==
    /\ RecordHere
    /\ worker[1].indices = <<1, 0>>
    /\ LastRecord.item[1][1] = "b.wav"
    /\ LastRecord.item[2][1] = "a.wav"
    /\ access_history = <<>>

\* the samples' own values of field i: duration (3), size (4), time frames (5)
OwnField(i, x) ==
    LET audio == AudioFiles[ids[worker[1].indices[x] + 1][1]]
    IN  CASE i = 3 -> audio.duration
          [] i = 4 -> audio.bytes \div 1000
          [] i = 5 -> size1(worker[1].batch[x][1])

OwnSum(i) == SumSeq([x \in 1..Len(worker[1].indices) |-> OwnField(i, x)])

\* C6 as stated: the aggregate's duration and size are the sums over the items
\* of the batch; audio path, transcript path and actual_time_frames are the
\* first item's.
C6_SumsDurationAndSize ==
    RecordHere =>
        /\ LastRecord.batch[3] = OwnSum(3)
        /\ LastRecord.batch[4] = OwnSum(4)
        /\ LastRecord.batch[1] = ids[worker[1].indices[1] + 1][1]
        /\ LastRecord.batch[2] = ids[worker[1].indices[1] + 1][2]
        /\ LastRecord.batch[5] = OwnField(5, 1)

\* C6 amended: the aggregate's duration, size and actual_time_frames are the
\* sums over the samples of the batch; audio path and transcript path are the
\* first sample's.
C6_SumsThreeFields ==
    RecordHere =>
        /\ LastRecord.batch[3] = OwnSum(3)
        /\ LastRecord.batch[4] = OwnSum(4)
        /\ LastRecord.batch[5] = OwnSum(5)
        /\ LastRecord.batch[1] = ids[worker[1].indices[1] + 1][1]
        /\ LastRecord.batch[2] = ids[worker[1].indices[1] + 1][2]

\* the record of a batch of two different samples: the aggregate's frames are
\* more than the first sample's
C6_Witness ==
    /\ RecordHere
    /\ worker[1].indices = <<0, 1>>
    /\ LastRecord.batch[5] > OwnField(5, 1)
    /\ LastRecord.batch[3] = 8

\* C8 as stated: the buffer never holds more than a fixed number of records
\* (here: fewer than the batches collated in the run).
C8_BufferBounded == Len(meta_buffer) < MaxIter

\* C8 amended: the buffer has no capacity; it holds every record produced and
\* not yet popped, one per collation.
C8_BufferHoldsAll == Len(meta_buffer) + Len(popped) = iter

\* every batch of the run was collated and none popped
C8_Witness == Len(meta_buffer) = MaxIter /\ popped = <<>> /\ iter = MaxIter

----------------------------------------------------------------------------
(* Properties: pop_meta_buffer polling beside the producer (SpecPopFair) *)

\* the running call of pop_meta_buffer ends in this step
PopEnds == pop_pc = "polling" /\ pop_pc' = "idle"

\* C7: pop_meta_buffer polls at most PollLimit times and then ends; if a
\* record is in the buffer when the loop is left, the oldest record is removed
\* and returned; if the buffer is still empty at the poll limit, the call
\* fails with the underflow error and leaves buffer and counter unchanged.
C7_BoundedPoll ==
    /\ [](timeout \in 0..PollLimit)
    /\ [][PopEnds =>
            IF meta_buffer # <<>>
            THEN /\ ~pop_result'.raised
                 /\ pop_result'.value = <<Head(meta_buffer)>>
                 /\ meta_buffer' = Tail(meta_buffer)
            ELSE /\ timeout = PollLimit
                 /\ pop_result'.raised
                 /\ meta_buffer' = meta_buffer
                 /\ iter' = iter]_vars
    /\ (pop_pc = "polling") ~> (pop_pc = "idle")

\* one call returned a record, and a later call polled to the limit and failed
C7_Witness ==
    /\ pop_pc = "idle"
    /\ pop_result.raised
    /\ popped # <<>>
    /\ meta_buffer = <<>>

----------------------------------------------------------------------------
(* Properties: two batches over one shared provider (SpecShared) *)

\* worker w's call of my_collate_fn returns in this step
CollatedBy(w) == worker[w].pc = "fetch" /\ worker'[w].pc = "done"

\* C9: a collation describes the leading entries of the shared Access History,
\* whichever batch appended them, and clears the whole history, the other
\* batch's entries included; so with interleaved get() calls a record is
\* pushed whose entry at some position describes another manifest index than
\* the batch's sample at that position (C9_Witness).
C9_SharedHistory ==
    [][\A w \in {1, 2} : CollatedBy(w) =>
          /\ access_history' = <<>>
          /\ Len(Last(meta_buffer').item) = Len(worker[w].batch)
          /\ \A x \in 1..Len(worker[w].batch) :
                /\ x <= Len(access_history)
                /\ Last(meta_buffer').item[x][1] = ids[access_history[x] + 1][1]
                /\ Last(meta_buffer').item[x][2] = ids[access_history[x] + 1][2]]_vars

\* worker w has just collated; the record's entry at some position describes
\* another manifest index than w's sample there, and the entries of the batch
\* the other worker is still fetching are gone from the Access History
C9_Witness ==
    \E w, v \in {1, 2} :
        /\ w # v
        /\ worker[w].pc = "done"
        /\ worker[v].pc = "fetch"
        /\ meta_buffer # <<>>
        /\ Last(meta_buffer).iter = iter
        /\ access_history = <<>>
        /\ \E x \in 1..Len(worker[w].indices) :
              Last(meta_buffer).item[x][1] # ids[worker[w].indices[x] + 1][1]

----------------------------------------------------------------------------
(* Properties: load_audio (SpecLoad) *)

\* C10: with a target T greater than the source length L > 0 the result has
\* length T and its element at every position k < T is source[k mod L] (so the
\* first L elements are the source); with 0 < T <= L the result is the first T
\* elements of the source.
C10_Tiling ==
    load_pc = "done" =>
        LET L == Len(audio_file)
            T == audio_truncation
        IN  /\ T > L =>
                /\ Len(sound) = T
                /\ SubSeq(sound, 1, L) = audio_file
                /\ \A k \in 0..(T - 1) : sound[k + 1] = audio_file[(k % L) + 1]
            /\ (0 < T /\ T <= L) => sound = SubSeq(audio_file, 1, T)

\* a source of two different samples tiled to a length that cuts the last
\* period short
C10_Witness ==
    /\ load_pc = "done"
    /\ audio_file = <<1, 2>>
    /\ audio_truncation = 5
    /\ sound = <<1, 2, 1, 2, 1>>

----------------------------------------------------------------------------
(* Properties: inject_noise_sample (SpecNoise) *)

\* the noise clip read cyclically from the drawn offset
Wrapped(k) == noise_src[((noise_offset + k) % Len(noise_src)) + 1]

\* C11: for a non-empty clip of length M, an offset o in [0, M) and a signal
\* of length n, the loop always has something to copy, what it has filled so
\* far is the clip read cyclically from o, and when it is over the noise added
\* at every position k < n is noise_level * clip[(o + k) mod M]; so the output
\* has the input's length and equals the input when noise_level is 0.
C11_WrappedNoise ==
    /\ [](noise_pc = "loop" =>
            /\ src_left >= 1
            /\ src_offset + src_left = Len(noise_src)
            /\ dst_left > 0 => dst_offset + dst_left = Len(data)
            /\ \A k \in 0..(dst_offset - 1) : noise_dst[k + 1] = Wrapped(k))
    /\ [](noise_pc = "done" =>
            /\ Len(data) = Len(data_in)
            /\ \A k \in 0..(Len(data_in) - 1) :
                  /\ noise_dst[k + 1] = Wrapped(k)
                  /\ data[k + 1] = data_in[k + 1] + noise_level * Wrapped(k)
            /\ noise_level = 0 => data = data_in)
    /\ (noise_pc = "start") ~> (noise_pc = "done")

\* a clip of two different samples, read from its second sample, wrapped more
\* than once over a signal of four samples
C11_Witness ==
    /\ noise_pc = "done"
    /\ noise_src = <<1, 2>>
    /\ noise_offset = 1
    /\ noise_level = 2
    /\ data_in = <<10, 10, 20, 20>>
    /\ noise_dst = <<2, 1, 2, 1>>
    /\ data = <<14, 12, 24, 22>>

----------------------------------------------------------------------------
(* Properties: the item-level list of a record (Spec) *)

\* C12: in every record pushed by my_collate_fn the item-level entry at each
\* position x, position 0 included, holds the duration, size and
\* actual_time_frames of sample x alone, and no later collation call modifies
\* a record already in the buffer.
C12_ItemsUntouched ==
    /\ [](RecordHere =>
            \A x \in 1..Len(worker[1].indices) :
                /\ LastRecord.item[x][3] = OwnField(3, x)
                /\ LastRecord.item[x][4] = OwnField(4, x)
                /\ LastRecord.item[x][5] = OwnField(5, x))
    /\ [][Collated => SubSeq(meta_buffer', 1, Len(meta_buffer)) = meta_buffer]_vars

====
